---- MODULE Spec2Model ----
(***************************************************************************)
(* sidechainnet: batch collation (datasets/collate.py) and the losses      *)
(* computed on the collated batches (examples/losses.py).                  *)
(*                                                                         *)
(* Every function of the two files is pure, so the state is one call:      *)
(* Init draws the function and its inputs, one action per function applies *)
(* it.  The loss actions consume the batch paired_collate_fn returned, as  *)
(* the data loaders of prepare_dataloaders do.                             *)
(*                                                                         *)
(* Tensors are sequences; a 2-D tensor is a sequence of rows.  Reals are   *)
(* integers (coordinates, angles in units of pi/PI, losses in units of     *)
(* 1/SCALE), nan and inf are the reserved values NaN and Inf.              *)
(***************************************************************************)
EXTENDS Integers, Sequences, FiniteSets, TLC

\* ------------------------------------------------------------ bounds ----
\* Largest number of instances handed to collate_fn in one call.
MaxBatch == 2
\* Longest instance handed to collate_fn directly.
MaxInstLen == 4
\* Largest explicit max_seq_len handed to collate_fn directly.
MaxM == 2
\* Largest number of proteins in one batch of the data loader.
MaxProteins == 2
\* Longest protein (residues) of the data set.
MaxLen == 3
\* Longest angle tensor handed to angle_diff.
MaxAngLen == 2
\* Angles are multiples of pi/PI: PI is the integer that stands for pi.
PI == 3
\* Losses are fixed-point numbers with SCALE units per 1.0.
SCALE == 10
\* Atoms per residue (14 in the library, scaled down with the proteins).
NUM_COORDS_PER_RES == 2
\* Residue cap of paired_collate_fn (500 in the library, scaled down with
\* the proteins so that proteins longer than the cap exist).
MAX_SEQ_LEN == 2

\* ------------------------------------------------- values and helpers ----
PAD_ID == 20
NaN == -1000001
Inf == 1000001
None == <<>>

Max2(a, b) == IF a >= b THEN a ELSE b
Min2(a, b) == IF a <= b THEN a ELSE b
Max(S) == CHOOSE x \in S : \A y \in S : y <= x
Repeat(v, n) == [j \in 1..n |-> v]

\* Python's row[:stop]: stop is None (no limit) or <<k>>; a negative k
\* counts from the end.
Slice(row, stop) ==
    IF stop = None THEN row
    ELSE LET k == IF stop[1] < 0 THEN Max2(Len(row) + stop[1], 0)
                  ELSE Min2(stop[1], Len(row))
         IN SubSeq(row, 1, k)

\* torch.LongTensor of a float array: truncation toward zero; the array
\* holds residue ids and pad_id as whole floats, which it keeps.
LongTensor(v) == v

\* torch.FloatTensor of a float64 array: rounding to float32, which is
\* exact for nan and for whole numbers up to 2^24; the next binade holds
\* the even numbers.
FloatTensor(v) ==
    IF v = NaN THEN NaN
    ELSE IF v >= -(2^24) /\ v <= 2^24 THEN v
    ELSE 2 * (v \div 2)

\* --------------------------------------------------------- collate.py ----
\* Lines 36-39: the padding entry of one instance.
\* Variant: np.zeros padding for sequences too.
PadValueZeros(inst, sequences) ==
    IF sequences THEN 0 ELSE Repeat(0, Len(inst[1]))
PadValue(inst, sequences) ==
    IF sequences THEN PAD_ID ELSE Repeat(0, Len(inst[1]))

\* Lines 45-48: the stop of the trimming slice.  None * NUM_COORDS_PER_RES
\* raises TypeError.
\* Variant: the residue cap applied to coordinate rows as it is to the others.
TrimStopNoCoords(coords, max_seq_len) ==
    [status |-> "ok", stop |-> max_seq_len]
TrimStop(coords, max_seq_len) ==
    IF coords
    THEN IF max_seq_len = None
         THEN [status |-> "TypeError", stop |-> None]
         ELSE [status |-> "ok", stop |-> <<max_seq_len[1] * NUM_COORDS_PER_RES>>]
    ELSE [status |-> "ok", stop |-> max_seq_len]

\* Lines 50-53: the conversion of the array to a tensor.
ToTensor(rows, sequences) ==
    IF sequences
    THEN [i \in DOMAIN rows |-> [j \in DOMAIN rows[i] |-> LongTensor(rows[i][j])]]
    ELSE [i \in DOMAIN rows |->
            [j \in DOMAIN rows[i] |->
               [k \in DOMAIN rows[i][j] |-> FloatTensor(rows[i][j][k])]]]

collate_fn(insts_, coords, sequences, max_seq_len) ==
    LET max_batch_len == Max({Len(insts_[i]) : i \in DOMAIN insts_})
        padded == [i \in DOMAIN insts_ |->
                     insts_[i] \o Repeat(PadValue(insts_[i], sequences),
                                         max_batch_len - Len(insts_[i]))]
        trim == TrimStop(coords, max_seq_len)
    IN IF trim.status # "ok"
       THEN [status |-> trim.status, batch |-> <<>>]
       ELSE [status |-> "ok",
             batch |-> ToTensor([i \in DOMAIN padded |-> Slice(padded[i], trim.stop)],
                                sequences)]

\* Lines 14-24.  An instance is a record (seq, ang, crd), the 3-tuple of
\* the data set.
\* Variant: the coordinates collated without coords=True.
paired_collate_fn_nocoords(insts_) ==
    LET s == collate_fn([i \in DOMAIN insts_ |-> insts_[i].seq], FALSE, TRUE, <<MAX_SEQ_LEN>>)
        a == collate_fn([i \in DOMAIN insts_ |-> insts_[i].ang], FALSE, FALSE, <<MAX_SEQ_LEN>>)
        c == collate_fn([i \in DOMAIN insts_ |-> insts_[i].crd], FALSE, FALSE, <<MAX_SEQ_LEN>>)
    IN [status |-> "ok", sequences |-> s.batch, angles |-> a.batch, coords |-> c.batch]
paired_collate_fn(insts_) ==
    LET s == collate_fn([i \in DOMAIN insts_ |-> insts_[i].seq], FALSE, TRUE, <<MAX_SEQ_LEN>>)
        a == collate_fn([i \in DOMAIN insts_ |-> insts_[i].ang], FALSE, FALSE, <<MAX_SEQ_LEN>>)
        c == collate_fn([i \in DOMAIN insts_ |-> insts_[i].crd], TRUE, FALSE, <<MAX_SEQ_LEN>>)
    IN [status |-> "ok", sequences |-> s.batch, angles |-> a.batch, coords |-> c.batch]

\* ---------------------------------------------------------- losses.py ----
\* Arithmetic of torch on the fixed-point values, with nan and inf.
IsNaN(v) == v = NaN
FAdd(x, y) ==
    IF x = NaN \/ y = NaN THEN NaN
    ELSE IF x = Inf \/ y = Inf THEN Inf
    ELSE x + y
\* tensor / python int; the tensor is never negative here.
FDiv(x, n) ==
    IF x = NaN THEN NaN
    ELSE IF n = 0 THEN (IF x = 0 THEN NaN ELSE Inf)
    ELSE IF x = Inf THEN Inf
    ELSE x \div n

RECURSIVE ISqrtBetween(_, _, _)
ISqrtBetween(x, lo, hi) ==
    IF lo = hi THEN lo
    ELSE LET mid == (lo + hi + 1) \div 2
         IN IF mid * mid <= x THEN ISqrtBetween(x, mid, hi)
            ELSE ISqrtBetween(x, lo, mid - 1)
\* torch.sqrt, rounded down to the fixed-point grid (the search stays below
\* the root of 2^31).
ISqrt(x) == ISqrtBetween(x, 0, Min2(x, 46340))

RECURSIVE SumSeq(_)
SumSeq(s) == IF s = <<>> THEN 0 ELSE Head(s) + SumSeq(Tail(s))

\* t[mask] with a boolean mask over the first dimension: the entries whose
\* mask is True, in order; torch raises IndexError when the mask's length
\* is not the tensor's.
RECURSIVE Select(_, _)
Select(t, mask) ==
    IF t = <<>> THEN <<>>
    ELSE (IF Head(mask) THEN <<Head(t)>> ELSE <<>>) \o Select(Tail(t), Tail(mask))
BoolIndex(t, mask) ==
    IF Len(mask) # Len(t)
    THEN [status |-> "IndexError", val |-> <<>>]
    ELSE [status |-> "ok", val |-> Select(t, mask)]

\* Lines 138-146: a.repeat(n_tile), then index_select with order_index,
\* which repeats every entry of a n_tile times in place.
_tile(a, n_tile) ==
    LET init_dim == Len(a)
        rep == [p \in 1..(init_dim * n_tile) |-> a[((p - 1) % init_dim) + 1]]
        order_index == [q \in 1..(init_dim * n_tile) |->
                          init_dim * ((q - 1) % n_tile) + ((q - 1) \div n_tile) + 1]
    IN [q \in 1..(init_dim * n_tile) |-> rep[order_index[q]]]

\* Lines 76-99: the L x L matrix of distances, in units of 1/SCALE.  x is a
\* sequence of atoms, each a record with its coordinates xyz.
pairwise_internal_dist(x) ==
    [i \in DOMAIN x |->
       [j \in DOMAIN x |->
          LET sq == SumSeq([c \in 1..3 |-> x[i].xyz[c] * x[i].xyz[c]])
                    - 2 * SumSeq([c \in 1..3 |-> x[i].xyz[c] * x[j].xyz[c]])
                    + SumSeq([c \in 1..3 |-> x[j].xyz[c] * x[j].xyz[c]])
          IN ISqrt(Max2(sq, 0) * SCALE * SCALE)]]

\* torch.triu_indices(n, n, offset=1), row by row.
triu_indices(n) ==
    LET RECURSIVE Pairs(_, _)
        Pairs(i, j) ==
            IF i >= n THEN <<>>
            ELSE IF j > n THEN Pairs(i + 1, i + 2)
            ELSE <<(<<i, j>>)>> \o Pairs(i, j + 1)
    IN Pairs(1, 2)

\* Lines 46-67.  mse_loss of two empty tensors is nan; indexing b_ beyond
\* its size raises IndexError.
drmsd(a, b) ==
    LET a_ == pairwise_internal_dist(a)
        b_ == pairwise_internal_dist(b)
        i == triu_indices(Len(a))
    IN IF Len(b) < Len(a) /\ Len(a) >= 2
       THEN [status |-> "IndexError", res |-> NaN]
       ELSE IF i = <<>>
       THEN [status |-> "ok", res |-> NaN]
       ELSE LET sqerr == [p \in DOMAIN i |->
                            (a_[i[p][1]][i[p][2]] - b_[i[p][1]][i[p][2]])
                            * (a_[i[p][1]][i[p][2]] - b_[i[p][1]][i[p][2]])]
                mse == SumSeq(sqerr) \div Len(i)
            IN [status |-> "ok", res |-> ISqrt(mse)]

\* Atoms carry the index they have in the padded row, so that the atoms
\* a mask kept can be named.
Tag(row) == [i \in DOMAIN row |-> [at |-> i, xyz |-> row[i]]]

\* Lines 29-38: one iteration of the loop, for the rows pc, tc and s of one
\* protein.  term is d / (len(tc) // NUM_COORDS_PER_RES).
LoopBody(pc, tc, s) ==
    LET batch_padding == _tile([r \in DOMAIN s |-> s[r] # PAD_ID], NUM_COORDS_PER_RES)
        tc1 == BoolIndex(Tag(tc), batch_padding)
        missing_atoms == [i \in DOMAIN tc1.val |->
                            \A c \in 1..3 : IsNaN(tc1.val[i].xyz[c])]
        keep == [i \in DOMAIN missing_atoms |-> ~missing_atoms[i]]
        tc2 == BoolIndex(tc1.val, keep)
        pc2 == BoolIndex(Tag(pc), keep)
        d == drmsd(tc2.val, pc2.val)
    IN IF tc1.status # "ok"
       THEN [status |-> tc1.status, tc |-> <<>>, pc |-> <<>>, d |-> NaN, term |-> NaN]
       ELSE IF pc2.status # "ok"
       THEN [status |-> pc2.status, tc |-> tc2.val, pc |-> <<>>, d |-> NaN, term |-> NaN]
       ELSE IF d.status # "ok"
       THEN [status |-> d.status, tc |-> tc2.val, pc |-> pc2.val, d |-> NaN, term |-> NaN]
       ELSE [status |-> "ok", tc |-> tc2.val, pc |-> pc2.val, d |-> d.res,
             term |-> FDiv(d.res, Len(tc2.val) \div NUM_COORDS_PER_RES)]

\* Line 43: drmsds is a 0-dimensional tensor, the running sum of the terms;
\* the mean of a 0-dimensional tensor is the tensor.
MeanOfScalar(drmsds, n) == drmsds

\* Lines 10-43.  The first exception ends the call.  passed lists, for the
\* iterations that ran, what each handed to drmsd.
compute_batch_drmsd(true_coordinates, pred_coordinates, seq) ==
    LET n == Min2(Len(pred_coordinates), Min2(Len(true_coordinates), Len(seq)))
        RECURSIVE Loop(_, _, _)
        Loop(i, drmsds, passed) ==
            IF i > n
            THEN [status |-> "ok", value |-> MeanOfScalar(drmsds, n), passed |-> passed]
            ELSE LET it == LoopBody(pred_coordinates[i], true_coordinates[i], seq[i])
                 IN IF it.status # "ok"
                    THEN [status |-> it.status, value |-> NaN,
                          passed |-> Append(passed, it)]
                    ELSE Loop(i + 1, FAdd(drmsds, it.term), Append(passed, it))
    IN Loop(1, 0, <<>>)

\* Lines 102-120.  mask is ang_non_nans; the loss is the mean of the
\* squared differences over the entries the mask keeps (nan when it keeps
\* none), in units of 1/SCALE.
Positions(t) ==
    UNION {UNION {{<<i, j, k>> : k \in DOMAIN t[i][j]} : j \in DOMAIN t[i]} : i \in DOMAIN t}
angle_mse(true, pred) ==
    LET ang_non_nans == {p \in Positions(true) : ~IsNaN(true[p[1]][p[2]][p[3]])}
        RECURSIVE SumOver(_)
        SumOver(S) ==
            IF S = {} THEN 0
            ELSE LET p == CHOOSE q \in S : TRUE
                     e == pred[p[1]][p[2]][p[3]] - true[p[1]][p[2]][p[3]]
                 IN e * e + SumOver(S \ {p})
    IN [status |-> "ok", mask |-> ang_non_nans,
        value |-> IF ang_non_nans = {} THEN NaN
                  ELSE (SumOver(ang_non_nans) * SCALE) \div Cardinality(ang_non_nans)]

\* Lines 129-135.  error is a new tensor; the two masked assignments write
\* to it alone.  The record is the three tensors after the call.
Wrap1(e) == IF e # NaN /\ e > PI THEN e - 2 * PI ELSE e
Wrap2(e) == IF e # NaN /\ e < -PI THEN e + 2 * PI ELSE e
\* Variant: without the correction of line 133.
angle_diff_no_upper_wrap(true, pred) ==
    LET error == [i \in DOMAIN true |->
                    IF true[i] = NaN \/ pred[i] = NaN THEN NaN ELSE true[i] - pred[i]]
    IN [error |-> [i \in DOMAIN error |-> Wrap2(error[i])], true |-> true, pred |-> pred]
angle_diff(true, pred) ==
    LET error == [i \in DOMAIN true |->
                    IF true[i] = NaN \/ pred[i] = NaN THEN NaN ELSE true[i] - pred[i]]
        error1 == [i \in DOMAIN error |-> Wrap1(error[i])]
        error2 == [i \in DOMAIN error1 |-> Wrap2(error1[i])]
    IN [error |-> error2, true |-> true, pred |-> pred]

\* ------------------------------------------------------------ inputs ----
\* The instances collate_fn is handed: 1-D arrays of residue ids (below
\* pad_id) when sequences is set, 2-D float arrays of one feature width
\* otherwise.  An instance is drawn by its length and a fill: entries differ
\* from place to place, and the second fill has nan entries.
Fills == {0, 1}
Widths == {1, 3}
SeqInst(l, t) == [j \in 1..l |-> IF t = 0 THEN j - 1 ELSE PAD_ID - j]
VecInst(l, w, t) ==
    [j \in 1..l |-> Repeat(IF t = 0 THEN j ELSE IF j % 2 = 1 THEN NaN ELSE -j, w)]
SeqInsts == {SeqInst(l, t) : l \in 1..MaxInstLen, t \in Fills}
VecInsts(w) == {VecInst(l, w, t) : l \in 1..MaxInstLen, t \in Fills}

\* A residue of the data set: "A" has every atom and angle, "G" has its
\* first atom and first angle only (the rest is nan-padded), "X" is missing
\* altogether.  A protein is drawn by its length, the kind of its first
\* residue and the kind of the others.
KindPairs == {<<"A", "A">>, <<"G", "G">>, <<"X", "X">>,
              <<"A", "X">>, <<"X", "A">>, <<"G", "A">>}
Point(g) == <<3 * g, 4 * (g % 2), 0>>
Missing == <<NaN, NaN, NaN>>
Protein(kinds) ==
    [seq |-> [r \in DOMAIN kinds |->
                IF kinds[r] = "A" THEN 0 ELSE IF kinds[r] = "G" THEN 7 ELSE 19],
     ang |-> [r \in DOMAIN kinds |->
                IF kinds[r] = "A" THEN <<1, -2>>
                ELSE IF kinds[r] = "G" THEN <<2, NaN>> ELSE <<NaN, NaN>>],
     crd |-> [g \in 1..(Len(kinds) * NUM_COORDS_PER_RES) |->
                LET r == ((g - 1) \div NUM_COORDS_PER_RES) + 1
                    a == ((g - 1) % NUM_COORDS_PER_RES) + 1
                IN IF kinds[r] = "A" \/ (kinds[r] = "G" /\ a = 1)
                   THEN Point(g) ELSE Missing]]
Proteins ==
    {Protein([r \in 1..l |-> IF r = 1 THEN k[1] ELSE k[2]]) :
        l \in 1..MaxLen, k \in KindPairs}

\* A prediction has the shape of the truth and no nan: the truth with its
\* nans filled, moved by m per position (m = 0 is the exact prediction).
PredModes == {0, 1}
Predict(t, m) ==
    [i \in DOMAIN t |->
       [j \in DOMAIN t[i] |->
          [k \in DOMAIN t[i][j] |->
             (IF t[i][j][k] = NaN THEN 0 ELSE t[i][j][k]) + m * j]]]

Angles == (-PI..PI) \cup {NaN}

\* ------------------------------------------------------- state machine ----
VARIABLES stage, fn, insts, coords, sequences, max_seq_len, batch, true, pred, loss

vars == <<stage, fn, insts, coords, sequences, max_seq_len, batch, true, pred, loss>>

NoBatch == [status |-> "none"]
NoLoss == [status |-> "none"]

Init ==
    /\ stage = "call"
    /\ batch = NoBatch
    /\ loss = NoLoss
    /\ \/ /\ fn = "collate_fn"
          /\ coords \in BOOLEAN
          /\ sequences \in BOOLEAN
          /\ max_seq_len \in {None} \cup {<<m>> : m \in 0..MaxM}
          /\ \E b \in 1..MaxBatch :
                \/ sequences /\ insts \in [1..b -> SeqInsts]
                \/ ~sequences /\ \E w \in Widths : insts \in [1..b -> VecInsts(w)]
          /\ true = <<>> /\ pred = <<>>
       \/ /\ fn = "paired_collate_fn"
          /\ \E b \in 1..MaxProteins : insts \in [1..b -> Proteins]
          /\ coords = FALSE /\ sequences = FALSE /\ max_seq_len = None
          /\ true = <<>> /\ pred = <<>>
       \/ /\ fn = "angle_diff"
          /\ \E l \in 1..MaxAngLen : true \in [1..l -> Angles] /\ pred \in [1..l -> Angles]
          /\ insts = <<>>
          /\ coords = FALSE /\ sequences = FALSE /\ max_seq_len = None

CollateFn ==
    /\ stage = "call" /\ fn = "collate_fn"
    /\ batch' = collate_fn(insts, coords, sequences, max_seq_len)
    /\ stage' = "done"
    /\ UNCHANGED <<fn, insts, coords, sequences, max_seq_len, true, pred, loss>>

PairedCollateFn ==
    /\ stage = "call" /\ fn = "paired_collate_fn"
    /\ batch' = paired_collate_fn(insts)
    /\ stage' = "collated"
    /\ UNCHANGED <<fn, insts, coords, sequences, max_seq_len, true, pred, loss>>

ComputeBatchDrmsd ==
    /\ stage = "collated"
    /\ \E m \in PredModes :
          /\ true' = batch.coords
          /\ pred' = Predict(batch.coords, m)
          /\ loss' = compute_batch_drmsd(batch.coords, Predict(batch.coords, m),
                                         batch.sequences)
    /\ fn' = "compute_batch_drmsd"
    /\ stage' = "done"
    /\ UNCHANGED <<insts, coords, sequences, max_seq_len, batch>>

AngleMse ==
    /\ stage = "collated"
    /\ \E m \in PredModes :
          /\ true' = batch.angles
          /\ pred' = Predict(batch.angles, m)
          /\ loss' = angle_mse(batch.angles, Predict(batch.angles, m))
    /\ fn' = "angle_mse"
    /\ stage' = "done"
    /\ UNCHANGED <<insts, coords, sequences, max_seq_len, batch>>

AngleDiff ==
    /\ stage = "call" /\ fn = "angle_diff"
    /\ loss' = [status |-> "ok", error |-> angle_diff(true, pred).error]
    /\ true' = angle_diff(true, pred).true
    /\ pred' = angle_diff(true, pred).pred
    /\ stage' = "done"
    /\ UNCHANGED <<fn, insts, coords, sequences, max_seq_len, batch>>

Next == CollateFn \/ PairedCollateFn \/ ComputeBatchDrmsd \/ AngleMse \/ AngleDiff

Spec == Init /\ [][Next]_vars

\* ------------------------------------------------------------ claims ----
Lens == {Len(insts[i]) : i \in DOMAIN insts}
CollateDone == fn = "collate_fn" /\ stage = "done"

\* C1: for a non-empty list of instances and max_seq_len M >= 1, collate_fn
\* returns one row per instance, in input order, and every row has length
\* min(Lmax, M), or min(Lmax, M * NUM_COORDS_PER_RES) when coords is set.
C1_Rectangular ==
    (CollateDone /\ max_seq_len # None /\ max_seq_len[1] >= 1) =>
        LET M == max_seq_len[1]
            R == Min2(Max(Lens), IF coords THEN M * NUM_COORDS_PER_RES ELSE M)
        IN /\ batch.status = "ok"
           /\ Len(batch.batch) = Len(insts)
           /\ \A i \in DOMAIN insts :
                 /\ Len(batch.batch[i]) = R
                 /\ batch.batch[i][1] = insts[i][1]

\* C1 witness: two instances of different lengths, coords set, and the
\* longer one cut to M * NUM_COORDS_PER_RES entries.
C1_Witness ==
    /\ CollateDone /\ coords /\ max_seq_len # None /\ max_seq_len[1] >= 1
    /\ Cardinality(Lens) = 2
    /\ Max(Lens) > max_seq_len[1] * NUM_COORDS_PER_RES
    /\ batch.status = "ok"
    /\ Len(batch.batch[1]) = max_seq_len[1] * NUM_COORDS_PER_RES

\* C2: every entry of a returned row is the instance's entry at that place
\* when the instance has one, and the pad value otherwise (pad_id for
\* sequences, a zero vector of the instance's width otherwise).
C2_PadAndCut ==
    (CollateDone /\ batch.status = "ok") =>
        \A i \in DOMAIN batch.batch :
            \A j \in DOMAIN batch.batch[i] :
                batch.batch[i][j] =
                    IF j <= Len(insts[i]) THEN insts[i][j]
                    ELSE IF sequences THEN PAD_ID
                    ELSE Repeat(0, Len(insts[i][1]))

\* C2 witness: a batch of sequences with a real entry, a padding entry and
\* a row that lost its tail to the cut.
C2_Witness ==
    /\ CollateDone /\ sequences /\ batch.status = "ok"
    /\ \E i \in DOMAIN batch.batch :
          /\ Len(batch.batch[i]) >= 2
          /\ Len(insts[i]) < Len(batch.batch[i])
          /\ batch.batch[i][Len(batch.batch[i])] = PAD_ID
    /\ \E i \in DOMAIN batch.batch : Len(batch.batch[i]) < Len(insts[i])

\* C3: for instances with one angle row per residue and NUM_COORDS_PER_RES
\* atoms per residue, the three tensors of paired_collate_fn have one row
\* per instance, angle rows as long as the sequence rows (R),
\* coordinate rows NUM_COORDS_PER_RES * R long, and the atoms of residue k
\* stay at rows (k-1) * NUM_COORDS_PER_RES + 1 .. k * NUM_COORDS_PER_RES.
C3_Grouping ==
    (/\ stage = "collated"
     /\ \A i \in DOMAIN insts :
           /\ Len(insts[i].ang) = Len(insts[i].seq)
           /\ Len(insts[i].crd) = NUM_COORDS_PER_RES * Len(insts[i].seq)) =>
        LET R == Len(batch.sequences[1])
        IN /\ Len(batch.sequences) = Len(insts)
           /\ Len(batch.angles) = Len(insts)
           /\ Len(batch.coords) = Len(insts)
           /\ \A i \in DOMAIN insts :
                 /\ Len(batch.sequences[i]) = R
                 /\ Len(batch.angles[i]) = R
                 /\ Len(batch.coords[i]) = NUM_COORDS_PER_RES * R
                 /\ \A k \in 1..R : \A a \in 1..NUM_COORDS_PER_RES :
                       LET g == (k - 1) * NUM_COORDS_PER_RES + a
                       IN IF k <= Len(insts[i].seq)
                          THEN /\ batch.sequences[i][k] = insts[i].seq[k]
                               /\ batch.coords[i][g] = insts[i].crd[g]
                          ELSE /\ batch.sequences[i][k] = PAD_ID
                               /\ batch.coords[i][g] = <<0, 0, 0>>

\* C3 witness: a batch with a protein shorter than the rows (padded) and a
\* protein longer than MAX_SEQ_LEN (cut).
C3_Witness ==
    /\ stage = "collated"
    /\ \E i \in DOMAIN insts : Len(insts[i].seq) < Len(batch.sequences[i])
    /\ \E i \in DOMAIN insts : Len(insts[i].seq) > MAX_SEQ_LEN
    /\ \A i \in DOMAIN insts : Len(batch.coords[i]) = NUM_COORDS_PER_RES * MAX_SEQ_LEN

\* C4: without max_seq_len (None), for every combination of coords and
\* sequences, collate_fn returns without error a batch whose rows have the
\* length of the longest instance.
C4_DefaultPadsToMax ==
    (CollateDone /\ max_seq_len = None) =>
        /\ batch.status = "ok"
        /\ \A i \in DOMAIN batch.batch : Len(batch.batch[i]) = Max(Lens)

\* C5: compute_batch_drmsd returns the mean over the proteins of the batch
\* of the per-protein length-normalised DRMSD.
C5_BatchAveraged ==
    (/\ fn = "compute_batch_drmsd" /\ stage = "done" /\ loss.status = "ok"
     /\ \A i \in DOMAIN loss.passed : loss.passed[i].term \notin {NaN, Inf}) =>
        loss.value = SumSeq([i \in DOMAIN loss.passed |-> loss.passed[i].term])
                        \div Len(loss.passed)

\* C6: the positions angle_mse averages over, for the angle batch of the
\* collation, are exactly the real, non-missing angle entries: no padding
\* position is among them.
C6_MaskIsRealEntries ==
    (fn = "angle_mse" /\ stage = "done") =>
        loss.mask = {p \in Positions(true) :
                        /\ p[2] <= Len(insts[p[1]].ang)
                        /\ insts[p[1]].ang[p[2]][p[3]] # NaN}

\* C7: for every protein of the batch, the true and the predicted tensor
\* handed to drmsd hold the same atoms, those of the padded row whose
\* residue is not padding and whose true coordinate is not all nan, and no
\* masking step fails.
C7_SameAtoms ==
    (fn = "compute_batch_drmsd" /\ stage = "done") =>
        /\ Len(loss.passed) = Len(true)
        /\ \A i \in DOMAIN loss.passed :
              LET it == loss.passed[i]
                  kept == {g \in DOMAIN true[i] :
                              /\ batch.sequences[i][((g - 1) \div NUM_COORDS_PER_RES) + 1] # PAD_ID
                              /\ \E c \in 1..3 : true[i][g][c] # NaN}
              IN /\ it.status = "ok"
                 /\ Len(it.tc) = Len(it.pc)
                 /\ {it.tc[k].at : k \in DOMAIN it.tc} = kept
                 /\ {it.pc[k].at : k \in DOMAIN it.pc} = kept

\* C8: for angles true and pred in [-pi, pi], every entry of the error
\* angle_diff returns lies in [-pi, pi] and is congruent to true - pred
\* modulo 2 pi; the error has the shape of the inputs and the call leaves
\* true and pred as they were.
C8_AngleDiff ==
    [][(stage = "call" /\ fn = "angle_diff") =>
          /\ true' = true
          /\ pred' = pred
          /\ DOMAIN loss'.error = DOMAIN true
          /\ \A i \in DOMAIN true :
                (true[i] # NaN /\ pred[i] # NaN) =>
                    /\ loss'.error[i] >= -PI
                    /\ loss'.error[i] <= PI
                    /\ (loss'.error[i] - (true[i] - pred[i])) % (2 * PI) = 0]_vars

\* C8 witness: a call whose difference was out of bounds on either side
\* and was wrapped.
C8_Witness ==
    /\ fn = "angle_diff" /\ stage = "done"
    /\ \E i \in DOMAIN true :
          /\ true[i] # NaN /\ pred[i] # NaN
          /\ true[i] - pred[i] > PI
          /\ loss.error[i] = true[i] - pred[i] - 2 * PI
    /\ \E i \in DOMAIN true :
          /\ true[i] # NaN /\ pred[i] # NaN
          /\ true[i] - pred[i] < -PI
          /\ loss.error[i] = true[i] - pred[i] + 2 * PI

====
